---------------------------- MODULE Spec2Model ----------------------------
(***************************************************************************)
(* The asset-generation scripts of the repository as one state machine.    *)
(* One run of one script is one behaviour: the script walks its request    *)
(* table, and for every request it submits a job (POST), polls the job's   *)
(* status (GET), downloads the output (GET of each output URI), writes the *)
(* file and hands the return value to the batch loop.                      *)
(*                                                                         *)
(* The repository holds the same pipeline three times, coded differently:  *)
(*   "cls"  the generator classes (generate_premium_app_icon.py,           *)
(*          generate_stunning_trading_icon.py): _make_request,             *)
(*          _poll_prediction, _download_assets;                            *)
(*   "loop" the scripts that poll in `while True`                          *)
(*          (create_ai_trading_icons.py,                                   *)
(*          create_professional_fintech_icon.py);                          *)
(*   "fin"  create_fintech_mobile_icon.py, polling in `for attempt in      *)
(*          range(60)` inside one try/except.                              *)
(* A step of the model is one network call, one sleep, or the batch loop's *)
(* bookkeeping after a pipeline has returned.  The remote service and the  *)
(* file system are the environment: every response and every write result  *)
(* is chosen nondeterministically.                                         *)
(***************************************************************************)
EXTENDS Integers, Sequences, FiniteSets, TLC

(* ------------------------------ bounds --------------------------------- *)

\* Requests in the script's request table (the scripts have 5 to 7).
BatchSize == 2

\* The poll's attempt budget: max_attempts / range(60) in the source.
MaxAttempts == 3

\* Longest `output` list the service returns for a succeeded job.
MaxUrls == 2

(* --------------------------- the environment --------------------------- *)

\* requests raises a RequestException subclass (ConnectionError, Timeout)
\* instead of returning a response; modelled as the pseudo status code 0.
TransportError == 0

Variants == {"cls", "loop", "fin"}

\* Response to the submission POST: a status code and whether the JSON body
\* holds the key 'id'.  Every body the service sends is a JSON object.
PostResponses ==
    { [code |-> c, hasId |-> h] :
        c \in {TransportError, 200, 201, 304, 400}, h \in BOOLEAN }

\* Values of the 'status' key of a status response; "missing" is a body
\* without that key, "canceled" and "queued" are strings the scripts do not
\* know.
StatusStrings ==
    {"starting", "processing", "succeeded", "failed", "canceled", "queued",
     "missing"}

\* The statuses after which the service changes the job no more.
TerminalStatuses == {"succeeded", "failed"}

\* Values of the 'error' key of a status response: the service's reason
\* for a failed job; "absent" is a body without that key.
ErrorStrings == {"absent", "nsfw_content"}

\* Response to a status GET.  outputs is the length of the 'output' list,
\* which the scripts read only for a succeeded job; error is read only for
\* a failed one.
StatusResponses ==
    { r \in [code : {TransportError, 200, 500},
             status : StatusStrings,
             outputs : 0..MaxUrls,
             error : ErrorStrings] :
        /\ (r.status # "succeeded" => r.outputs = 0)
        /\ (r.status # "failed" => r.error = "absent")
        /\ (r.code = TransportError => r.status = "missing") }

\* Response to the GET of an output URI.
DownloadResponses == {TransportError, 200, 404}

NoResponse ==
    [code |-> TransportError, status |-> "missing", outputs |-> 0,
     error |-> "absent"]

NoPost == [code |-> TransportError, hasId |-> FALSE]

(* ------------------------- values of the program ----------------------- *)

\* What a pipeline function handed to the batch loop.  kind: "pending" (not
\* returned yet), "None", "list" (the classes' downloaded_files), "path"
\* (the scripts' filename) or "raise" (an exception left the function).
Pending == [kind |-> "pending", paths |-> <<>>]

NoneVal == [kind |-> "None", paths |-> <<>>]

Raised == [kind |-> "raise", paths |-> <<>>]

ListVal(ps) == [kind |-> "list", paths |-> ps]

PathVal(p) == [kind |-> "path", paths |-> <<p>>]

\* Python's truth value of a return value: None and [] are false.
Truthy(r) == r.kind \in {"list", "path"} /\ r.paths # <<>>

\* response.raise_for_status(): HTTPError for 4xx and 5xx only.
RaiseForStatus(code) == code >= 400 /\ code < 600

\* f"{prefix}_{timestamp}.png": the request's name prefix and the second of
\* the clock at which the name was built.
FilePath(r, stamp) == [req |-> r, stamp |-> stamp]

\* Mutant of WriteFile: nothing reaches the disk.
WriteFileDropped(fs, path, uri, good) ==
    fs

\* open(path, 'wb').write(content): the file at path is replaced.
WriteFile(fs, path, uri, good) ==
    { f \in fs : f.path # path }
        \cup { [path |-> path, uri |-> uri, good |-> good] }

\* The counters below are observations of the run, not program variables
\* (the `while True` scripts count nothing); they saturate one past the
\* attempt budget.
CounterCap == MaxAttempts + 1

Bump(n) == IF n < CounterCap THEN n + 1 ELSE n

VARIABLES
    variant,    \* which script runs
    pc,         \* position of the script
    req,        \* index of the request being processed, 1..BatchSize
    attempt,    \* `attempt` of the poll's for loop
    posts,      \* submission POSTs issued for the current request
    postResp,   \* the response to that POST
    handle,     \* TRUE once prediction_id is bound
    queries,    \* status GETs issued for the current job
    sleeps,     \* time.sleep(2) calls taken by the current poll
    statusSeen, \* terminal statuses the poll has read for the current job
    lastResp,   \* the response to the latest status GET
    outputs,    \* length of the output list of the succeeded job
    dl,         \* index of the download loop (enumerate(urls))
    dlRes,      \* result of each output GET issued so far, in order
    clock,      \* seconds elapsed since the job's first download
    downloaded, \* downloaded_files
    ret,        \* per request: what the pipeline function returned
    cause,      \* per request: why the pipeline ended
    results,    \* the batch loop's list (icons_generated, results)
    files,      \* the output directory
    paces,      \* rate-limiting sleeps taken by the batch loop
    cancelled,  \* the external cancellation signal has been raised
    wire        \* the kinds of request the current pipeline has sent

vars == <<variant, pc, req, attempt, posts, postResp, handle, queries, sleeps,
          statusSeen, lastResp, outputs, dl, dlRes, clock, downloaded, ret,
          cause, results, files, paces, cancelled, wire>>

jobVars == <<posts, postResp, handle, queries, sleeps, statusSeen, lastResp,
             outputs, dl, dlRes, clock, downloaded, attempt, wire>>

Init ==
    /\ variant \in Variants
    /\ pc = "submit"
    /\ req = 1
    /\ attempt = 0
    /\ posts = 0
    /\ postResp = NoPost
    /\ handle = FALSE
    /\ queries = 0
    /\ sleeps = 0
    /\ statusSeen = 0
    /\ lastResp = NoResponse
    /\ outputs = 0
    /\ dl = 0
    /\ dlRes = <<>>
    /\ clock = 0
    /\ downloaded = <<>>
    /\ ret = [i \in 1..BatchSize |-> Pending]
    /\ cause = [i \in 1..BatchSize |-> "none"]
    /\ results = <<>>
    /\ files = {}
    /\ paces = 0
    /\ cancelled = FALSE
    /\ wire = {}

\* Mutant of Authorized: HEADERS is passed to every call of requests.
AuthorizedAlways(call) ==
    TRUE

\* Whether a call of requests is given headers=HEADERS, the dictionary that
\* holds the bearer token: the POST and the status GET are, the GET of an
\* output URL is not.
Authorized(call) ==
    call \in {"post", "status"}

\* The request of one call as it leaves the script.
Sent(call) == [call |-> call, auth |-> Authorized(call)]

\* Pipelines the batch loops run at a time: the generator is called
\* synchronously inside the for loop, there is no worker pool.
ConcurrencyLimit == 1

(* ---------------------- leaving a pipeline function -------------------- *)

\* Mutant of Return: the pipeline is handed back to the batch loop while
\* its outcome is still open (the job keeps running detached).
ReturnDetached(value, why) ==
    /\ ret' = ret
    /\ cause' = [cause EXCEPT ![req] = why]
    /\ pc' = "collect"

\* `return value`: control goes back to the batch loop.
Return(value, why) ==
    /\ ret' = [ret EXCEPT ![req] = value]
    /\ cause' = [cause EXCEPT ![req] = why]
    /\ pc' = "collect"

\* An exception no handler of the script catches: it leaves the pipeline
\* function, the batch loop and main; the script ends with a traceback.
Raise(why) ==
    /\ ret' = [ret EXCEPT ![req] = Raised]
    /\ cause' = [cause EXCEPT ![req] = why]
    /\ pc' = "crashed"

\* Mutant of Collect: the rate-limiting sleep is taken only after a job
\* that gave a result.
CollectPaceOnSuccess(kept) ==
    /\ pc = "collect"
    /\ results' = (IF Truthy(ret[req]) THEN results \o kept ELSE results)
    /\ paces' = (IF Truthy(ret[req]) THEN paces + 1 ELSE paces)
    /\ IF req < BatchSize
         THEN /\ req' = req + 1
              /\ pc' = "submit"
              /\ attempt' = 0
              /\ posts' = 0
              /\ postResp' = NoPost
              /\ handle' = FALSE
              /\ queries' = 0
              /\ sleeps' = 0
              /\ statusSeen' = 0
              /\ lastResp' = NoResponse
              /\ outputs' = 0
              /\ dl' = 0
              /\ dlRes' = <<>>
              /\ clock' = 0
              /\ downloaded' = <<>>
              /\ wire' = {}
         ELSE /\ pc' = "done"
              /\ UNCHANGED <<req, jobVars>>
    /\ UNCHANGED <<cancelled, variant, ret, cause, files>>

\* Mutant of Collect: the batch list is replaced by the latest result
\* instead of being extended.
CollectOverwrites(kept) ==
    /\ pc = "collect"
    /\ results' = (IF Truthy(ret[req]) THEN kept ELSE results)
    /\ paces' = paces + 1
    /\ IF req < BatchSize
         THEN /\ req' = req + 1
              /\ pc' = "submit"
              /\ attempt' = 0
              /\ posts' = 0
              /\ postResp' = NoPost
              /\ handle' = FALSE
              /\ queries' = 0
              /\ sleeps' = 0
              /\ statusSeen' = 0
              /\ lastResp' = NoResponse
              /\ outputs' = 0
              /\ dl' = 0
              /\ dlRes' = <<>>
              /\ clock' = 0
              /\ downloaded' = <<>>
              /\ wire' = {}
         ELSE /\ pc' = "done"
              /\ UNCHANGED <<req, jobVars>>
    /\ UNCHANGED <<cancelled, variant, ret, cause, files>>

\* Mutant of Collect: the batch loop does not wait for a pipeline that is
\* sleeping between two status queries; it goes on to the next request.
CollectEarly(kept) ==
    /\ pc \in {"collect", "sleep"}
    /\ results' = (IF Truthy(ret[req]) THEN results \o kept ELSE results)
    /\ paces' = paces + 1
    /\ IF req < BatchSize
         THEN /\ req' = req + 1
              /\ pc' = "submit"
              /\ attempt' = 0
              /\ posts' = 0
              /\ postResp' = NoPost
              /\ handle' = FALSE
              /\ queries' = 0
              /\ sleeps' = 0
              /\ statusSeen' = 0
              /\ lastResp' = NoResponse
              /\ outputs' = 0
              /\ dl' = 0
              /\ dlRes' = <<>>
              /\ clock' = 0
              /\ downloaded' = <<>>
              /\ wire' = {}
         ELSE /\ pc' = "done"
              /\ UNCHANGED <<req, jobVars>>
    /\ UNCHANGED <<cancelled, variant, ret, cause, files>>

\* The batch loop after a pipeline returned: `if result:` keep it, sleep,
\* go to the next request of the table.
Collect(kept) ==
    /\ pc = "collect"
    /\ results' = (IF Truthy(ret[req]) THEN results \o kept ELSE results)
    /\ paces' = paces + 1
    /\ IF req < BatchSize
         THEN /\ req' = req + 1
              /\ pc' = "submit"
              /\ attempt' = 0
              /\ posts' = 0
              /\ postResp' = NoPost
              /\ handle' = FALSE
              /\ queries' = 0
              /\ sleeps' = 0
              /\ statusSeen' = 0
              /\ lastResp' = NoResponse
              /\ outputs' = 0
              /\ dl' = 0
              /\ dlRes' = <<>>
              /\ clock' = 0
              /\ downloaded' = <<>>
              /\ wire' = {}
         ELSE /\ pc' = "done"
              /\ UNCHANGED <<req, jobVars>>
    /\ UNCHANGED <<cancelled, variant, ret, cause, files>>

(* ------------- "cls": the generator classes (premium, stunning) -------- *)

\* Mutant of ClsSubmitBranch: the poll is entered without a job id in the
\* response body.
ClsSubmitBranchNoIdCheck(resp) ==
    IF resp.code = TransportError \/ RaiseForStatus(resp.code)
      THEN "request_exception"
      ELSE "poll"

\* _make_request: the POST, raise_for_status, prediction_data['id'] under
\* `except requests.exceptions.RequestException`.  A body without 'id' is
\* a KeyError, which that handler does not catch.
ClsSubmitBranch(resp) ==
    IF resp.code = TransportError \/ RaiseForStatus(resp.code)
      THEN "request_exception"
      ELSE IF resp.hasId THEN "poll" ELSE "key_error"

ClsSubmit ==
    /\ variant = "cls"
    /\ pc = "submit"
    /\ wire' = wire \cup {Sent("post")}
    /\ \E resp \in PostResponses :
         /\ posts' = posts + 1
         /\ postResp' = resp
         /\ CASE ClsSubmitBranch(resp) = "poll" ->
                   /\ handle' = TRUE
                   /\ pc' = "poll"
                   /\ UNCHANGED <<ret, cause>>
              [] ClsSubmitBranch(resp) = "request_exception" ->
                   /\ Return(NoneVal, "rejected")
                   /\ UNCHANGED handle
              [] OTHER ->
                   /\ Raise("no_id")
                   /\ UNCHANGED handle
    /\ UNCHANGED <<cancelled, variant, req, attempt, queries, sleeps, statusSeen,
                   lastResp, outputs, dl, dlRes, clock, downloaded, results,
                   files, paces>>

\* The status the for loop of _poll_prediction gets to read: requests.get
\* and raise_for_status raise before data.get('status') is reached.
ClsStatusRead(resp) ==
    IF resp.code = TransportError \/ RaiseForStatus(resp.code)
      THEN "unread"
      ELSE resp.status

\* Mutant of ClsPollBranch: the 'failed' branch waits and polls again
\* instead of returning.
ClsPollBranchFailedRetries(resp) ==
    CASE ClsStatusRead(resp) = "unread" -> "except"
      [] ClsStatusRead(resp) = "succeeded" ->
           (IF resp.outputs > 0 THEN "download" ELSE "no_output")
      [] ClsStatusRead(resp) \in {"starting", "processing", "failed"} ->
           "running"
      [] OTHER -> "unknown"

\* Mutant of ClsPollBranch: a status the code does not know is taken as a
\* failure of the job.
ClsPollBranchUnknownFails(resp) ==
    CASE ClsStatusRead(resp) = "unread" -> "except"
      [] ClsStatusRead(resp) = "succeeded" ->
           (IF resp.outputs > 0 THEN "download" ELSE "no_output")
      [] ClsStatusRead(resp) \in {"starting", "processing"} -> "running"
      [] OTHER -> "failed"

\* The body of _poll_prediction's for loop: which branch one status
\* response takes.
ClsPollBranch(resp) ==
    CASE ClsStatusRead(resp) = "unread" -> "except"
      [] ClsStatusRead(resp) = "succeeded" ->
           (IF resp.outputs > 0 THEN "download" ELSE "no_output")
      [] ClsStatusRead(resp) = "failed" -> "failed"
      [] ClsStatusRead(resp) \in {"starting", "processing"} -> "running"
      [] OTHER -> "unknown"

\* One iteration of the for loop up to its return or its sleep.
ClsPoll ==
    /\ variant = "cls"
    /\ pc = "poll"
    /\ wire' = wire \cup {Sent("status")}
    /\ attempt < MaxAttempts
    /\ \E resp \in StatusResponses :
         /\ queries' = Bump(queries)
         /\ lastResp' = resp
         /\ statusSeen' =
              (IF ClsStatusRead(resp) \in TerminalStatuses
                 THEN statusSeen + 1 ELSE statusSeen)
         /\ CASE ClsPollBranch(resp) = "download" ->
                   /\ pc' = "download"
                   /\ outputs' = resp.outputs
                   /\ UNCHANGED <<ret, cause>>
              [] ClsPollBranch(resp) = "no_output" ->
                   /\ Return(NoneVal, "empty")
                   /\ UNCHANGED outputs
              [] ClsPollBranch(resp) = "failed" ->
                   /\ Return(NoneVal, "remote_failed")
                   /\ UNCHANGED outputs
              [] OTHER ->
                   /\ pc' = "sleep"
                   /\ UNCHANGED <<ret, cause, outputs>>
    /\ UNCHANGED <<cancelled, variant, req, attempt, posts, postResp, handle, sleeps,
                   dl, dlRes, clock, downloaded, results, files, paces>>

\* time.sleep(2), then the for loop's next value of attempt; when range is
\* used up the function prints the timeout and returns None.
ClsSleep ==
    /\ variant = "cls"
    /\ pc = "sleep"
    /\ UNCHANGED wire
    /\ sleeps' = Bump(sleeps)
    /\ attempt' = attempt + 1
    /\ IF attempt + 1 < MaxAttempts
         THEN pc' = "poll" /\ UNCHANGED <<ret, cause>>
         ELSE Return(NoneVal, "timeout")
    /\ UNCHANGED <<cancelled, variant, req, posts, postResp, handle, queries,
                   statusSeen, lastResp, outputs, dl, dlRes, clock,
                   downloaded, results, files, paces>>

\* The body of _download_assets' loop: a failed GET is caught and the loop
\* goes on; an OSError of open/write is not a RequestException.
ClsDownloadBranch(code, writeOk) ==
    IF code = TransportError \/ RaiseForStatus(code)
      THEN "skip"
      ELSE IF writeOk THEN "saved" ELSE "os_error"

\* Mutant of ClsDownloadMore: the loop is left at the first URL that was
\* not saved.
ClsDownloadMoreFailFast(branch, index, count) ==
    branch = "saved" /\ index + 1 < count

\* After one URL of _download_assets, whatever its branch: the next URL
\* while enumerate(urls) has one, else the return of downloaded_files.
ClsDownloadMore(branch, index, count) ==
    index + 1 < count

\* Mutant of ClsNextUrl: a URL whose GET failed is requested again.
ClsNextUrlRetries(branch, index) ==
    IF branch = "skip" THEN index ELSE index + 1

\* enumerate(urls) hands out the next URL after every iteration, whatever
\* became of the current one.
ClsNextUrl(branch, index) ==
    index + 1

ClsDownload ==
    /\ variant = "cls"
    /\ pc = "download"
    /\ wire' = wire \cup {Sent("download")}
    /\ dl < outputs
    /\ \E code \in DownloadResponses, writeOk \in BOOLEAN, tick \in {0, 1} :
         LET branch == ClsDownloadBranch(code, writeOk)
             path == FilePath(req, clock + tick)
             got == IF branch = "saved" THEN Append(downloaded, path)
                                        ELSE downloaded
         IN  /\ dlRes' = Append(dlRes, branch)
             /\ clock' = clock + tick
             /\ downloaded' = got
             /\ files' = (IF branch = "saved"
                            THEN WriteFile(files, path, dl + 1, TRUE)
                            ELSE files)
             /\ dl' = ClsNextUrl(branch, dl)
             /\ IF branch = "os_error"
                  THEN Raise("write_failed")
                  ELSE IF ClsDownloadMore(branch, dl, outputs)
                    THEN UNCHANGED <<pc, ret, cause>>
                    ELSE Return(ListVal(got),
                                IF \E k \in 1..Len(dlRes') :
                                     dlRes'[k] # "saved"
                                  THEN "fetch_failed" ELSE "ok")
    /\ UNCHANGED <<cancelled, variant, req, attempt, posts, postResp, handle, queries,
                   sleeps, statusSeen, lastResp, outputs, results, paces>>

\* generate_multiple_variations / generate_all_concepts: the loop body after
\* the generator returned: `if result: icons_generated.extend(result)`,
\* time.sleep.
ClsCollect ==
    /\ variant = "cls"
    /\ Collect(ret[req].paths)

(* ------ "loop": create_ai_trading_icons, create_professional_fintech --- *)

\* The POST of generate_ai_icon: only status 201 enters the poll; the whole
\* function body is under `except Exception`, so a transport error and the
\* KeyError of a body without 'id' both end in `return None`.
LoopSubmitBranch(resp) ==
    IF resp.code = TransportError
      THEN "request_exception"
      ELSE IF resp.code = 201
        THEN (IF resp.hasId THEN "poll" ELSE "key_error")
        ELSE "not_201"

LoopSubmit ==
    /\ variant = "loop"
    /\ pc = "submit"
    /\ wire' = wire \cup {Sent("post")}
    /\ \E resp \in PostResponses :
         /\ posts' = posts + 1
         /\ postResp' = resp
         /\ CASE LoopSubmitBranch(resp) = "poll" ->
                   /\ handle' = TRUE
                   /\ pc' = "poll"
                   /\ UNCHANGED <<ret, cause>>
              [] LoopSubmitBranch(resp) = "key_error" ->
                   /\ Return(NoneVal, "no_id")
                   /\ UNCHANGED handle
              [] OTHER ->
                   /\ Return(NoneVal, "rejected")
                   /\ UNCHANGED handle
    /\ UNCHANGED <<cancelled, variant, req, attempt, queries, sleeps, statusSeen,
                   lastResp, outputs, dl, dlRes, clock, downloaded, results,
                   files, paces>>

\* The body of `while True`: the status is read only from a 200 response;
\* any other code breaks out of the loop; data['status'] and
\* data['output'][0] raise on a missing key and an empty list.
LoopPollBranch(resp) ==
    IF resp.code = TransportError
      THEN "request_exception"
      ELSE IF resp.code # 200
        THEN "not_200"
        ELSE CASE resp.status = "missing" -> "key_error"
               [] resp.status = "succeeded" ->
                    (IF resp.outputs > 0 THEN "download" ELSE "index_error")
               [] resp.status = "failed" -> "failed"
               [] OTHER -> "running"

\* The status the while body gets to read.
LoopStatusRead(resp) ==
    IF resp.code = 200 THEN resp.status ELSE "unread"

LoopPollCause(branch) ==
    CASE branch = "failed" -> "remote_failed"
      [] branch = "index_error" -> "empty"
      [] OTHER -> "poll_error"

LoopPoll ==
    /\ variant = "loop"
    /\ pc = "poll"
    /\ wire' = wire \cup {Sent("status")}
    /\ \E resp \in StatusResponses :
         /\ queries' = Bump(queries)
         /\ lastResp' = resp
         /\ statusSeen' =
              (IF LoopStatusRead(resp) \in TerminalStatuses
                 THEN statusSeen + 1 ELSE statusSeen)
         /\ CASE LoopPollBranch(resp) = "download" ->
                   /\ pc' = "download"
                   /\ outputs' = resp.outputs
                   /\ UNCHANGED <<ret, cause>>
              [] LoopPollBranch(resp) = "running" ->
                   /\ pc' = "sleep"
                   /\ UNCHANGED <<ret, cause, outputs>>
              [] OTHER ->
                   /\ Return(NoneVal, LoopPollCause(LoopPollBranch(resp)))
                   /\ UNCHANGED outputs
    /\ UNCHANGED <<cancelled, variant, req, attempt, posts, postResp, handle, sleeps,
                   dl, dlRes, clock, downloaded, results, files, paces>>

\* time.sleep(2) at the end of the while body; the loop has no counter and
\* no exit of its own.
LoopSleep ==
    /\ variant = "loop"
    /\ pc = "sleep"
    /\ UNCHANGED wire
    /\ sleeps' = Bump(sleeps)
    /\ pc' = "poll"
    /\ UNCHANGED <<cancelled, variant, req, attempt, posts, postResp, handle, queries,
                   statusSeen, lastResp, outputs, dl, dlRes, clock,
                   downloaded, ret, cause, results, files, paces>>

\* The download of data['output'][0]: the file is written only for a 200
\* response; another code breaks out of the loop to `return None`.
LoopDownloadBranch(code, writeOk) ==
    IF code = TransportError
      THEN "request_exception"
      ELSE IF code # 200
        THEN "not_200"
        ELSE IF writeOk THEN "saved" ELSE "os_error"

LoopDownload ==
    /\ variant = "loop"
    /\ pc = "download"
    /\ wire' = wire \cup {Sent("download")}
    /\ \E code \in DownloadResponses, writeOk \in BOOLEAN, tick \in {0, 1} :
         LET branch == LoopDownloadBranch(code, writeOk)
             path == FilePath(req, clock + tick)
         IN  /\ dlRes' = Append(dlRes, branch)
             /\ clock' = clock + tick
             /\ dl' = dl + 1
             /\ IF branch = "saved"
                  THEN /\ files' = WriteFile(files, path, 1, TRUE)
                       /\ downloaded' = Append(downloaded, path)
                       /\ Return(PathVal(path), "ok")
                  ELSE /\ UNCHANGED <<files, downloaded>>
                       /\ Return(NoneVal,
                                 IF branch = "os_error" THEN "write_failed"
                                                        ELSE "fetch_failed")
    /\ UNCHANGED <<cancelled, variant, req, attempt, posts, postResp, handle, queries,
                   sleeps, statusSeen, lastResp, outputs, results, paces>>

\* main: `if result: generated_icons.append(result)`, time.sleep(1).
LoopCollect ==
    /\ variant = "loop"
    /\ Collect(ret[req].paths)

(* ------------------ "fin": create_fintech_mobile_icon ------------------ *)

\* The POST of generate_fintech_icon: raise_for_status and
\* response.json()['id'], all under `except Exception`.
FinSubmitBranch(resp) ==
    IF resp.code = TransportError \/ RaiseForStatus(resp.code)
      THEN "request_exception"
      ELSE IF resp.hasId THEN "poll" ELSE "key_error"

FinSubmit ==
    /\ variant = "fin"
    /\ pc = "submit"
    /\ wire' = wire \cup {Sent("post")}
    /\ \E resp \in PostResponses :
         /\ posts' = posts + 1
         /\ postResp' = resp
         /\ CASE FinSubmitBranch(resp) = "poll" ->
                   /\ handle' = TRUE
                   /\ pc' = "poll"
                   /\ UNCHANGED <<ret, cause>>
              [] FinSubmitBranch(resp) = "key_error" ->
                   /\ Return(NoneVal, "no_id")
                   /\ UNCHANGED handle
              [] OTHER ->
                   /\ Return(NoneVal, "rejected")
                   /\ UNCHANGED handle
    /\ UNCHANGED <<cancelled, variant, req, attempt, queries, sleeps, statusSeen,
                   lastResp, outputs, dl, dlRes, clock, downloaded, results,
                   files, paces>>

\* The body of `for attempt in range(60)`: the status code of the response
\* is never looked at; data['status'] is read from whatever body came.
FinPollBranch(resp) ==
    IF resp.code = TransportError
      THEN "request_exception"
      ELSE CASE resp.status = "missing" -> "key_error"
             [] resp.status = "succeeded" ->
                  (IF resp.outputs > 0 THEN "download" ELSE "index_error")
             [] resp.status = "failed" -> "failed"
             [] OTHER -> "running"

\* The status the for body gets to read: any body that came back.
FinStatusRead(resp) ==
    IF resp.code = TransportError THEN "unread" ELSE resp.status

FinPollCause(branch) ==
    CASE branch = "failed" -> "remote_failed"
      [] branch = "index_error" -> "empty"
      [] OTHER -> "poll_error"

FinPoll ==
    /\ variant = "fin"
    /\ pc = "poll"
    /\ wire' = wire \cup {Sent("status")}
    /\ attempt < MaxAttempts
    /\ \E resp \in StatusResponses :
         /\ queries' = Bump(queries)
         /\ lastResp' = resp
         /\ statusSeen' =
              (IF FinStatusRead(resp) \in TerminalStatuses
                 THEN statusSeen + 1 ELSE statusSeen)
         /\ CASE FinPollBranch(resp) = "download" ->
                   /\ pc' = "download"
                   /\ outputs' = resp.outputs
                   /\ UNCHANGED <<ret, cause>>
              [] FinPollBranch(resp) = "running" ->
                   /\ pc' = "sleep"
                   /\ UNCHANGED <<ret, cause, outputs>>
              [] OTHER ->
                   /\ Return(NoneVal, FinPollCause(FinPollBranch(resp)))
                   /\ UNCHANGED outputs
    /\ UNCHANGED <<cancelled, variant, req, attempt, posts, postResp, handle, sleeps,
                   dl, dlRes, clock, downloaded, results, files, paces>>

\* time.sleep(2), then the next value of range(60); after the last one the
\* function prints "Timeout" and returns None.
FinSleep ==
    /\ variant = "fin"
    /\ pc = "sleep"
    /\ UNCHANGED wire
    /\ sleeps' = Bump(sleeps)
    /\ attempt' = attempt + 1
    /\ IF attempt + 1 < MaxAttempts
         THEN pc' = "poll" /\ UNCHANGED <<ret, cause>>
         ELSE Return(NoneVal, "timeout")
    /\ UNCHANGED <<cancelled, variant, req, posts, postResp, handle, queries,
                   statusSeen, lastResp, outputs, dl, dlRes, clock,
                   downloaded, results, files, paces>>

\* The download of data['output'][0]: response.content is written whatever
\* the status code of the response is.
FinDownloadBranch(code, writeOk) ==
    IF code = TransportError
      THEN "request_exception"
      ELSE IF writeOk THEN "saved" ELSE "os_error"

FinDownload ==
    /\ variant = "fin"
    /\ pc = "download"
    /\ wire' = wire \cup {Sent("download")}
    /\ \E code \in DownloadResponses, writeOk \in BOOLEAN, tick \in {0, 1} :
         LET branch == FinDownloadBranch(code, writeOk)
             path == FilePath(req, clock + tick)
         IN  /\ dlRes' = Append(dlRes, IF branch = "saved" /\ code # 200
                                         THEN "saved_error_body" ELSE branch)
             /\ clock' = clock + tick
             /\ dl' = dl + 1
             /\ IF branch = "saved"
                  THEN /\ files' = WriteFile(files, path, 1, code = 200)
                       /\ downloaded' = Append(downloaded, path)
                       /\ Return(PathVal(path), "ok")
                  ELSE /\ UNCHANGED <<files, downloaded>>
                       /\ Return(NoneVal,
                                 IF branch = "os_error" THEN "write_failed"
                                                        ELSE "fetch_failed")
    /\ UNCHANGED <<cancelled, variant, req, attempt, posts, postResp, handle, queries,
                   sleeps, statusSeen, lastResp, outputs, results, paces>>

\* main: `if result: results.append(result)`, time.sleep(3).
FinCollect ==
    /\ variant = "fin"
    /\ Collect(ret[req].paths)

(* ------------------------------ the run -------------------------------- *)

\* The environment raises the cancellation signal while the run is on.  No
\* statement of the scripts reads such a signal, so nothing else changes.
Cancel ==
    /\ ~cancelled
    /\ pc \notin {"done", "crashed"}
    /\ cancelled' = TRUE
    /\ UNCHANGED <<wire, variant, pc, req, attempt, posts, postResp, handle,
                   queries, sleeps, statusSeen, lastResp, outputs, dl, dlRes,
                   clock, downloaded, ret, cause, results, files, paces>>

Next ==
    \/ ClsSubmit
    \/ ClsPoll
    \/ ClsSleep
    \/ ClsDownload
    \/ ClsCollect
    \/ LoopSubmit
    \/ LoopPoll
    \/ LoopSleep
    \/ LoopDownload
    \/ LoopCollect
    \/ FinSubmit
    \/ FinPoll
    \/ FinSleep
    \/ FinDownload
    \/ FinCollect
    \/ Cancel

Spec == Init /\ [][Next]_vars

\* The interpreter keeps running the script: a step that can be taken is
\* taken.
FairSpec == Spec /\ WF_vars(Next)

TypeOK ==
    /\ variant \in Variants
    /\ pc \in {"submit", "poll", "sleep", "download", "collect", "done",
               "crashed"}
    /\ req \in 1..BatchSize
    /\ attempt \in 0..MaxAttempts
    /\ queries \in 0..CounterCap
    /\ sleeps \in 0..CounterCap
    /\ posts \in 0..1
    /\ dl \in 0..MaxUrls
    /\ outputs \in 0..MaxUrls
    /\ paces \in 0..BatchSize
    /\ cancelled \in BOOLEAN
    /\ wire \subseteq [call : {"post", "status", "download"}, auth : BOOLEAN]

(* ------------------------------ properties ----------------------------- *)

Is2xx(code) == code >= 200 /\ code < 300

\* The run is over: the request table is used up, or an exception ended
\* the script.
Terminated == pc \in {"done", "crashed"}

\* C1: for every poll and every sequence of service responses, the number
\* of status queries issued for the job never exceeds maxAttempts.
C1_QueriesWithinBudget == queries <= MaxAttempts

\* C2: every pipeline that started polling eventually reaches an outcome (a
\* return value or an exception), whatever the service answers; no poll
\* loop runs without bound.
C2_EveryPollEnds ==
    \A i \in 1..BatchSize :
        (req = i /\ pc = "poll") ~> (ret[i].kind # "pending")

\* C3: once a status query has returned a terminal status ('succeeded' or
\* 'failed'), the poll of that job is over: no sleep is taken, no further
\* status query is issued and no second terminal status is read for it.
C3_TerminalStopsPoll ==
    [][(statusSeen >= 1 /\ req' = req)
          => /\ queries' = queries
             /\ sleeps' = sleeps
             /\ statusSeen' = statusSeen
             /\ pc' \notin {"poll", "sleep"}]_vars

\* C3 witness: a poll whose second or later query read 'failed' has
\* returned to the batch loop.
C3_Witness ==
    /\ pc = "collect"
    /\ statusSeen = 1
    /\ queries >= 2
    /\ sleeps >= 1
    /\ lastResp.status = "failed"

\* C4: the submission yields a job handle, and polling starts, if and only
\* if the response to the POST is 2xx (a 2xx response that carries a job
\* id gives a handle, and a handle comes from a 2xx response only); after a
\* non-2xx response no status query is issued.
C4_HandleIff2xx ==
    posts = 1 =>
        /\ (Is2xx(postResp.code) /\ postResp.hasId) => handle
        /\ handle => Is2xx(postResp.code)
        /\ (~Is2xx(postResp.code) => queries = 0)

\* C5: when the run is over, every request of the batch has been attempted,
\* whichever pipelines failed and however they failed.
C5_AllAttempted ==
    Terminated => \A i \in 1..BatchSize : ret[i].kind # "pending"

\* C6: once the batch completes, every request has a recorded outcome
\* associated with it in the batch's result; none is dropped.
C6_OneOutcomeEach ==
    pc = "done" =>
        \A i \in 1..BatchSize :
            \E k \in 1..Len(results) : results[k].req = i

\* C7: the value returned for a poll that used up its attempt budget
\* differs from the value returned for a job the service reported 'failed'.
C7_TimeoutDistinct ==
    \A i, j \in 1..BatchSize :
        (cause[i] = "timeout" /\ cause[j] = "remote_failed")
            => ret[i] # ret[j]

\* C8: a status query that ends in a transport error or a non-success HTTP
\* response does not end the poll: the loop goes to its inter-attempt wait.
C8_ErrorKeepsPolling ==
    [][(pc = "poll"
          /\ lastResp'.code # 200)
          => pc' = "sleep"]_vars

RECURSIVE CountOf(_, _)
CountOf(seq, v) ==
    IF seq = <<>> THEN 0
    ELSE (IF Head(seq) = v THEN 1 ELSE 0) + CountOf(Tail(seq), v)

C10_OnlyGoodPersisted ==
    /\ \A f \in files : f.good
    /\ \A i \in 1..BatchSize :
         Truthy(ret[i]) =>
            \A k \in 1..Len(ret[i].paths) :
                \E f \in files : f.path = ret[i].paths[k] /\ f.good

\* The status strings of the service's interface.
KnownStatuses == {"starting", "processing", "succeeded", "failed"}

\* C11: a status string outside 'starting', 'processing', 'succeeded',
\* 'failed' is handled like a running job: the status query that reads it
\* does not return, it goes to its inter-attempt wait with the attempt
\* counter and the return value untouched.
C11_UnknownIsRunning ==
    [][(/\ pc = "poll"
        /\ pc' # "poll"
        /\ lastResp'.code = 200
        /\ lastResp'.status \notin KnownStatuses \cup {"missing"})
          => /\ pc' = "sleep"
             /\ ret' = ret
             /\ attempt' = attempt
             /\ statusSeen' = statusSeen]_vars

\* C11 witness: after a query answered with the unknown status 'canceled'
\* and the wait that followed, the poll is about to issue its next query.
C11_Witness ==
    /\ pc = "poll"
    /\ queries >= 1
    /\ sleeps >= 1
    /\ lastResp.code = 200
    /\ lastResp.status = "canceled"

\* Request i got a job id from its submission.
Submitted(i) ==
    IF i = req THEN handle
               ELSE i < req /\ cause[i] \notin {"none", "rejected", "no_id"}

\* The pipelines that are submitted and have not reached their outcome.
InFlight ==
    { i \in 1..BatchSize : Submitted(i) /\ ret[i].kind = "pending" }

\* C12: with the batch larger than the concurrency limit, at most
\* ConcurrencyLimit pipelines are submitted and not yet terminal in any
\* reachable state.
C12_InFlightBounded ==
    BatchSize > ConcurrencyLimit => Cardinality(InFlight) <= ConcurrencyLimit

\* C12 witness: the second request of the batch is in flight, in its
\* inter-attempt wait, after the first one has reached its outcome.
C12_Witness ==
    /\ BatchSize > ConcurrencyLimit
    /\ req = 2
    /\ pc = "sleep"
    /\ InFlight = {2}
    /\ ret[1].kind # "pending"

\* C13: one pacing sleep is taken after every job, whether it gave a result
\* or not, before the next submission: when request number r is being
\* processed r - 1 sleeps have been taken, and r once the table is used up.
C13_PacedSubmissions ==
    paces = (IF pc = "done" THEN req ELSE req - 1)

\* C13 witness: the second submission is about to be issued after a first
\* job that failed, and one pacing sleep has been taken.
C13_Witness ==
    /\ req = 2
    /\ pc = "submit"
    /\ paces = 1
    /\ ret[1] = NoneVal

\* C14: when the job was non-terminal on the first k queries, 'succeeded'
\* with n output URIs on query k + 1 (within the budget) and every download
\* was saved, the poll issued exactly k + 1 queries (one more than its k
\* waits) and the outcome is a success holding n artifacts.
C14_QueriesAndArtifacts ==
    (/\ pc = "collect"
     /\ cause[req] = "ok"
     /\ queries <= MaxAttempts
     /\ \A k \in 1..Len(dlRes) : dlRes[k] = "saved")
        => /\ queries = sleeps + 1
           /\ Truthy(ret[req])
           /\ Len(ret[req].paths) = outputs

\* C15: no failure of a pipeline is fatal to the run: no exception leaves a
\* pipeline function and ends the batch.
C15_NoFatalError ==
    /\ pc # "crashed"
    /\ \A i \in 1..BatchSize : ret[i].kind # "raise"

\* C16: once the cancellation signal is raised the batch admits no new
\* pipeline and no poll issues a further status query: no step is taken
\* from a submission or from a status query.
C16_CancelStopsWork ==
    [][cancelled => pc \notin {"submit", "poll"}]_vars

\* C17: nothing is retried outside the poll loop: a pipeline issues at most
\* one submission POST, and its downloads walk the output URIs once, one GET
\* per URI whatever the result of the GET.
C17_NoRetryOutsidePoll ==
    [][/\ posts' <= 1
       /\ Len(dlRes') <= outputs'
       /\ (dlRes' # dlRes /\ req' = req) => dl' = dl + 1]_vars

\* C17 witness: the first request's only POST was rejected and the pipeline
\* ended; the second request's job had two output URIs, both GETs failed
\* and each URI was requested once.
C17_Witness ==
    /\ req = 2
    /\ cause[1] = "rejected"
    /\ pc = "collect"
    /\ posts = 1
    /\ outputs = 2
    /\ dlRes = <<"skip", "skip">>

\* C18: once the batch completes, the aggregated result holds every
\* artifact path returned by every pipeline that succeeded; none is lost.
C18_NoLostUpdate ==
    pc = "done" =>
        \A i \in 1..BatchSize :
            Truthy(ret[i]) =>
                \A k \in 1..Len(ret[i].paths) :
                    \E j \in 1..Len(results) : results[j] = ret[i].paths[k]

\* C18 witness: a completed batch in which both pipelines succeeded.
C18_Witness ==
    /\ pc = "done"
    /\ Truthy(ret[1])
    /\ Truthy(ret[2])
    /\ Len(results) >= 2

\* C19: the steps of a pipeline are ordered: a status query is issued only
\* after a submission whose response held a job id, and a download only
\* after a status query of the job read 'succeeded'.
C19_StepsOrdered ==
    /\ (queries > 0 \/ pc \in {"poll", "sleep"})
          => /\ handle
             /\ postResp.code # TransportError
             /\ postResp.hasId
    /\ (Len(dlRes) > 0 \/ pc = "download")
          => /\ queries > 0
             /\ lastResp.code # TransportError
             /\ lastResp.status = "succeeded"

\* C19 witness: a pipeline that submitted, read 'succeeded' on its second
\* status query and then downloaded has returned.
C19_Witness ==
    /\ pc = "collect"
    /\ handle
    /\ queries = 2
    /\ Len(dlRes) >= 1

\* C20: a timeout is returned only after exactly maxAttempts status queries
\* none of which read a terminal status, and a poll that never reads a
\* terminal status issues exactly maxAttempts queries, not more and not
\* fewer.
C20_TimeoutExactBudget ==
    /\ (pc = "collect" /\ cause[req] = "timeout")
          => (queries = MaxAttempts /\ statusSeen = 0)
    /\ statusSeen = 0 => queries <= MaxAttempts
    /\ (pc = "collect" /\ handle /\ statusSeen = 0)
          => queries = MaxAttempts

\* C21: in every poll exactly one wait separates two consecutive status
\* queries (the waits taken are the queries issued, or one fewer), and the
\* number of waits never exceeds maxAttempts.
C21_WaitsBounded ==
    /\ sleeps <= queries
    /\ queries <= sleeps + 1
    /\ sleeps <= MaxAttempts

\* C22: when the service reports the job 'failed', the value the pipeline
\* returns is a failure that carries the service's reason string unchanged,
\* no artifact download was issued and the pipeline wrote no file.
C22_FailedCarriesReason ==
    (pc = "collect" /\ cause[req] = "remote_failed")
        => /\ dlRes = <<>>
           /\ \A f \in files : f.path.req # req
           /\ "reason" \in DOMAIN ret[req]
           /\ ret[req].reason = lastResp.error

\* The causes for which a pipeline ended in a failure.
FailureCauses ==
    {"rejected", "no_id", "remote_failed", "timeout", "poll_error",
     "fetch_failed", "write_failed"}

\* C23: a job reported 'succeeded' with an empty output sequence ends the
\* pipeline without any download, and the value returned for it differs from
\* the value returned for a pipeline that failed.
C23_EmptySuccessDistinct ==
    /\ (pc = "collect" /\ cause[req] = "empty") => dlRes = <<>>
    /\ \A i, j \in 1..BatchSize :
          (cause[i] = "empty" /\ cause[j] \in FailureCauses)
              => ret[i] # ret[j]

\* C24: the batch loop runs the pipelines one after another in the order of
\* the request table: every request before the current one has reached its
\* outcome and has had its pacing sleep, no request after the current one
\* has been touched, and at most one job is in flight.
C24_StrictlySequential ==
    /\ \A i \in 1..BatchSize :
          /\ i < req => (ret[i].kind # "pending" /\ paces >= i)
          /\ i > req => (ret[i].kind = "pending" /\ cause[i] = "none")
    /\ Cardinality(InFlight) <= 1

\* C24 witness: the first pipeline has ended in a success and has been
\* paced, and the job of the second request is being polled.
C24_Witness ==
    /\ req = 2
    /\ pc = "poll"
    /\ cause[1] = "ok"
    /\ paces = 1
    /\ InFlight = {2}

\* The downloads of the current job after which a file was written.
Written == { k \in 1..Len(dlRes) : dlRes[k] \in {"saved", "saved_error_body"} }

FilesOf(i) == { f \in files : f.path.req = i }

\* C26: distinct artifacts are kept in distinct files: no download of a
\* succeeded job overwrites another one, so the number of files the job
\* left equals the number of paths its pipeline returned.
C26_DistinctSinks ==
    \A i \in 1..BatchSize :
        Truthy(ret[i]) => Cardinality(FilesOf(i)) = Len(ret[i].paths)

\* C27: the bearer credential goes with every submission and every status
\* query sent to the job service and with no download of an output URI.
C27_CredentialScope ==
    \A m \in wire :
        /\ m.call \in {"post", "status"} => m.auth
        /\ m.call = "download" => ~m.auth

\* C27 witness: a pipeline has sent a submission, a status query and a
\* download and has returned the file.
C27_Witness ==
    /\ pc = "collect"
    /\ Truthy(ret[req])
    /\ { m.call : m \in wire } = {"post", "status", "download"}

=============================================================================
